---- MODULE Spec2Model ----
(***************************************************************************)
(* A model of the deconvolution engine of covidcast-nowcast                *)
(* (delphi_covidcast_nowcast/deconvolution/deconvolution.py).              *)
(*                                                                         *)
(* Numbers.  The code computes in IEEE doubles.  The model computes in     *)
(* exact rationals: a number is a pair <<p, q>> in lowest terms with       *)
(* q > 0, and the not-a-number marker np.nan is the pair <<0, 0>>, which   *)
(* every arithmetic operation propagates and every comparison rejects, as  *)
(* in numpy.  Rounding error is therefore outside the model.               *)
(*                                                                         *)
(* Vectors are sequences of numbers (1-based: Python index i is i + 1      *)
(* here); matrices are sequences of rows.  A matrix with no rows is the    *)
(* empty sequence, so the operations that need its column count take it    *)
(* as a parameter.                                                         *)
(***************************************************************************)
EXTENDS Integers, Sequences, FiniteSets, TLC

----------------------------------------------------------------------------
(* Scalars *)

Abs(i) == IF i < 0 THEN -i ELSE i

RECURSIVE GCD(_, _)
GCD(a, b) == IF b = 0 THEN a ELSE GCD(b, a % b)

NaN == <<0, 0>>

IsNaN(a) == a[2] = 0

\* the rational p / q in lowest terms (q # 0)
Norm(p, q) ==
    LET g == GCD(Abs(p), Abs(q))
        s == IF q < 0 THEN -1 ELSE 1
    IN  <<s * (p \div g), s * (q \div g)>>

R(i) == <<i, 1>>

Zero == R(0)

\* sums and products reduce by common factors before multiplying, which
\* keeps the intermediate integers small
Add(a, b) ==
    IF IsNaN(a) \/ IsNaN(b) THEN NaN
    ELSE LET g == GCD(a[2], b[2])
         IN  Norm(a[1] * (b[2] \div g) + b[1] * (a[2] \div g),
                  (a[2] \div g) * b[2])

Neg(a) == IF IsNaN(a) THEN NaN ELSE <<-a[1], a[2]>>

Sub(a, b) == Add(a, Neg(b))

Mul(a, b) ==
    IF IsNaN(a) \/ IsNaN(b) THEN NaN
    ELSE LET g == GCD(Abs(a[1]), b[2])
             h == GCD(Abs(b[1]), a[2])
         IN  <<(a[1] \div g) * (b[1] \div h), (a[2] \div h) * (b[2] \div g)>>

\* a / b for b # 0
Div(a, b) ==
    IF IsNaN(a) \/ IsNaN(b) THEN NaN
    ELSE Mul(a, IF b[1] < 0 THEN <<-b[2], -b[1]>> ELSE <<b[2], b[1]>>)

\* p1 / q1 < p2 / q2 for positive q1 and q2, by integer parts and then
\* the reciprocals of the fractional parts (no products, so no overflow)
RECURSIVE LessFrac(_, _, _, _)
LessFrac(p1, q1, p2, q2) ==
    LET f1 == p1 \div q1
        f2 == p2 \div q2
        r1 == p1 % q1
        r2 == p2 % q2
    IN  IF f1 # f2 THEN f1 < f2
        ELSE IF r2 = 0 THEN FALSE
        ELSE IF r1 = 0 THEN TRUE
        ELSE LessFrac(q2, r2, q1, r1)

\* comparisons: false whenever an operand is NaN
Less(a, b) == ~IsNaN(a) /\ ~IsNaN(b) /\ LessFrac(a[1], a[2], b[1], b[2])

Leq(a, b) == ~IsNaN(a) /\ ~IsNaN(b) /\ ~LessFrac(b[1], b[2], a[1], a[2])

\* np.sign, np.abs, np.maximum on scalars
Sign(a) == IF IsNaN(a) THEN NaN
           ELSE IF a[1] > 0 THEN R(1) ELSE IF a[1] < 0 THEN R(-1) ELSE Zero

AbsR(a) == IF IsNaN(a) THEN NaN ELSE <<Abs(a[1]), a[2]>>

Maximum(a, b) == IF IsNaN(a) \/ IsNaN(b) THEN NaN
                 ELSE IF Less(a, b) THEN b ELSE a

----------------------------------------------------------------------------
(* Vectors and matrices *)

\* <<F(1), ..., F(n)>>, built element by element
RECURSIVE Tab(_, _)
Tab(F(_), n) == IF n <= 0 THEN <<>> ELSE Append(Tab(F, n - 1), F(n))

Zeros(n) == Tab(LAMBDA i : Zero, n)

VAdd(u, v) == Tab(LAMBDA i : Add(u[i], v[i]), Len(u))

VSub(u, v) == Tab(LAMBDA i : Sub(u[i], v[i]), Len(u))

VScale(c, v) == Tab(LAMBDA i : Mul(c, v[i]), Len(v))

RECURSIVE SumSeq(_)
SumSeq(s) == IF Len(s) = 0 THEN Zero ELSE Add(s[1], SumSeq(Tail(s)))

Dot(u, v) == SumSeq(Tab(LAMBDA i : Mul(u[i], v[i]), Len(u)))

\* M @ v
MatVec(M, v) == Tab(LAMBDA i : Dot(M[i], v), Len(M))

\* M.T for a matrix with c columns
Transpose(M, c) == Tab(LAMBDA j : Tab(LAMBDA i : M[i][j], Len(M)), c)

\* A @ B for B with c columns
MatMul(A, B, c) ==
    LET Bt == Transpose(B, c)
    IN  Tab(LAMBDA i : Tab(LAMBDA j : Dot(A[i], Bt[j]), c), Len(A))

MatAdd(A, B) == Tab(LAMBDA i : VAdd(A[i], B[i]), Len(A))

MatScale(c, A) == Tab(LAMBDA i : VScale(c, A[i]), Len(A))

\* the n x n identity matrix
Eye(n) == Tab(LAMBDA i : Tab(LAMBDA j : IF i = j THEN R(1) ELSE Zero, n), n)

\* the first row at or below r whose entry in column c is not zero, else 0
RECURSIVE PivotRow(_, _, _)
PivotRow(M, r, c) ==
    IF r > Len(M) THEN 0
    ELSE IF M[r][c] # Zero THEN r
    ELSE PivotRow(M, r + 1, c)

\* one column of Gauss-Jordan elimination on the augmented matrix M:
\* bring the pivot to row c, scale it to 1, clear column c elsewhere
Eliminate(M, c, p) ==
    LET prow == VScale(Div(R(1), M[p][c]), M[p])
        row(i) == IF i = c THEN prow
                  ELSE LET src == IF i = p THEN M[c] ELSE M[i]
                       IN  VSub(src, VScale(src[c], prow))
    IN  Tab(row, Len(M))

\* <<>> when M is singular
RECURSIVE GaussJordan(_, _)
GaussJordan(M, c) ==
    IF c > Len(M) THEN M
    ELSE LET p == PivotRow(M, c, c)
         IN  IF p = 0 THEN <<>> ELSE GaussJordan(Eliminate(M, c, p), c + 1)

\* np.linalg.inv: the exact inverse, or <<>> for a singular matrix (where
\* numpy raises LinAlgError)
Inv(M) ==
    LET n == Len(M)
        I == Eye(n)
        G == GaussJordan(Tab(LAMBDA i : M[i] \o I[i], n), 1)
    IN  IF G = <<>> THEN <<>> ELSE Tab(LAMBDA i : SubSeq(G[i], n + 1, 2 * n), n)

\* np.diff(x, n=1) of a vector
Diff1(x) == Tab(LAMBDA i : Sub(x[i + 1], x[i]), Len(x) - 1)

\* np.diff(x, n=d): d first differences; the empty vector stays empty
RECURSIVE Diff(_, _)
Diff(x, d) == IF d = 0 THEN x
              ELSE IF Len(x) = 0 THEN x
              ELSE Diff(Diff1(x), d - 1)

\* np.diff(M, n=1, axis=0): differences of consecutive rows
RowDiff1(M) == Tab(LAMBDA i : VSub(M[i + 1], M[i]), Len(M) - 1)

RECURSIVE RowDiff(_, _)
RowDiff(M, d) == IF d = 0 THEN M
                 ELSE IF Len(M) = 0 THEN M
                 ELSE RowDiff(RowDiff1(M), d - 1)

----------------------------------------------------------------------------
(* deconvolution.py: the convolution operator *)

\* scipy.linalg.toeplitz(c, r): Len(c) x Len(r), constant along diagonals
toeplitz(c, r) ==
    Tab(LAMBDA i :
            Tab(LAMBDA j : IF i >= j THEN c[i - j + 1] ELSE r[j - i + 1], Len(r)),
        Len(c))

\* the full (n+m-1) x n convolution matrix
construct_convolution_matrix(signal, kernel) ==
    LET n == Len(signal)
        padding == Zeros(n - 1)
        first_col == kernel \o padding
        first_row == <<kernel[1]>> \o padding
    IN  toeplitz(first_col, first_row)

\* a faulty variant of _fft_convolve that transforms without zero padding
\* and so wraps around: the circular convolution of length n
fft_convolve_circular(signal, kernel) ==
    LET n == Len(signal)
        m == Len(kernel)
        term(i, j) == IF j <= m THEN Mul(kernel[j], signal[((i - j) % n) + 1])
                      ELSE Zero
    IN  Tab(LAMBDA i : SumSeq(Tab(LAMBDA j : term(i, j), n)), n)

\* the product of the two spectra, inverted: the linear convolution,
\* truncated to the first n samples.  A NaN anywhere in an input reaches
\* every sample of its spectrum, and so every output.
fft_convolve(signal, kernel) ==
    LET n == Len(signal)
        m == Len(kernel)
        term(i, j) == IF j <= m /\ j <= i THEN Mul(kernel[j], signal[i - j + 1])
                      ELSE Zero
    IN  IF (\E i \in 1..n : IsNaN(signal[i])) \/ (\E j \in 1..m : IsNaN(kernel[j]))
        THEN Tab(LAMBDA i : NaN, n)
        ELSE Tab(LAMBDA i : SumSeq(Tab(LAMBDA j : term(i, j), m)), n)

----------------------------------------------------------------------------
(* deconvolution.py: deconvolve_tf *)

\* a faulty variant of _soft_thresh that shrinks without the floor at zero
soft_thresh_unfloored(x, lam) ==
    Tab(LAMBDA i : Mul(Sign(x[i]), Sub(AbsR(x[i]), lam)), Len(x))

\* sign(x) * maximum(abs(x) - lam, 0), element-wise
soft_thresh(x, lam) ==
    Tab(LAMBDA i : Mul(Sign(x[i]), Maximum(Sub(AbsR(x[i]), lam), Zero)), Len(x))

\* band([-1, 1], [0, 1], shape=(n - 1, n)).toarray()
band(n) ==
    Tab(LAMBDA i :
            Tab(LAMBDA j : IF j = i THEN R(-1) ELSE IF j = i + 1 THEN R(1) ELSE Zero,
                n),
        n - 1)

\* the penalty matrix D (lines 106-107)
\* a faulty variant of D built on backward differences
DiffMatrixBackward(n, k) == RowDiff(MatScale(R(-1), band(n)), k)

DiffMatrix(n, k) == RowDiff(band(n), k)

\* lines 102-118: the pre-calculations and the zero initial alpha and u.
\* np.zeros(n - 1) (line 33) raises ValueError for an empty series,
\* np.linalg.inv raises LinAlgError on a singular matrix, and np.zeros
\* raises ValueError on the negative length n - k - 1.
TfPrecompute(y, kernel, lam, k) ==
    LET n == Len(y)
        rho == lam
        C == SubSeq(construct_convolution_matrix(y, kernel), 1, n)
        D == DiffMatrix(n, k)
        Dt == Transpose(D, n)
        Ct == Transpose(C, n)
        DtD == MatMul(Dt, D, n)
        CtC == MatScale(Div(R(1), R(n)), MatMul(Ct, C, n))
        Cty == VScale(Div(R(1), R(n)), MatVec(Ct, y))
        A == MatAdd(CtC, MatScale(rho, DtD))
        x_update_1 == Inv(A)
    IN  IF n = 0
        THEN [err |-> "ValueError", D |-> <<>>, Cty |-> <<>>, x_update_1 |-> <<>>]
        ELSE IF x_update_1 = <<>>
        THEN [err |-> "LinAlgError", D |-> <<>>, Cty |-> <<>>, x_update_1 |-> <<>>]
        ELSE IF n - k - 1 < 0
        THEN [err |-> "ValueError", D |-> <<>>, Cty |-> <<>>, x_update_1 |-> <<>>]
        ELSE [err |-> "none", D |-> D, Cty |-> Cty, x_update_1 |-> x_update_1]

\* line 120: the x-update from the previous alpha and u
XUpdate(pre, rho, alpha_0, u_0) ==
    MatVec(pre.x_update_1,
           VAdd(pre.Cty,
                VScale(rho, MatVec(Transpose(pre.D, Len(pre.Cty)),
                                   VSub(alpha_0, u_0)))))

\* a faulty variant of the loop body whose u-update reads the alpha of the
\* previous iteration
AdmmStepStaleAlpha(pre, lam, k, s) ==
    LET x_k == XUpdate(pre, lam, s.alpha_0, s.u_0)
        Dx_u0 == VAdd(Diff(x_k, k + 1), s.u_0)
    IN  IF lam = Zero
        THEN [err |-> "ZeroDivisionError", x_k |-> x_k,
              alpha_0 |-> s.alpha_0, u_0 |-> s.u_0]
        ELSE [err |-> "none", x_k |-> x_k,
              alpha_0 |-> soft_thresh(Dx_u0, Div(lam, lam)),
              u_0 |-> VSub(Dx_u0, s.alpha_0)]

\* a faulty variant of the loop body with the step size rho fixed at 1
\* instead of set equal to lam
AdmmStepUnitRho(pre, lam, k, s) ==
    LET rho == R(1)
        x_k == XUpdate(pre, rho, s.alpha_0, s.u_0)
        Dx_u0 == VAdd(Diff(x_k, k + 1), s.u_0)
        alpha_k == soft_thresh(Dx_u0, Div(lam, rho))
    IN  [err |-> "none", x_k |-> x_k, alpha_0 |-> alpha_k,
         u_0 |-> VSub(Dx_u0, alpha_k)]

\* lines 120-126: one pass of the loop body.  lam / rho with rho = lam = 0
\* is a division of Python floats by zero and raises ZeroDivisionError
\* after x_k has been assigned.
AdmmStep(pre, lam, k, s) ==
    LET rho == lam
        x_k == XUpdate(pre, rho, s.alpha_0, s.u_0)
        Dx_u0 == VAdd(Diff(x_k, k + 1), s.u_0)
    IN  IF rho = Zero
        THEN [err |-> "ZeroDivisionError", x_k |-> x_k,
              alpha_0 |-> s.alpha_0, u_0 |-> s.u_0]
        ELSE LET alpha_k == soft_thresh(Dx_u0, Div(lam, rho))
                 u_k == VSub(Dx_u0, alpha_k)
             IN  [err |-> "none", x_k |-> x_k, alpha_0 |-> alpha_k, u_0 |-> u_k]

\* a faulty variant of the clip that lets negative values through
ClipVecNone(x) == x

\* np.clip(x, 0, np.infty)
ClipVec(x) == Tab(LAMBDA i : IF Less(x[i], Zero) THEN Zero ELSE x[i], Len(x))

\* lines 128-131: x_k is still None when the loop body never ran; np.clip
\* of None raises TypeError, and without clip the function returns None.
TfFinalize(x_k, ran, clip) ==
    IF ~ran
    THEN IF clip THEN [outcome |-> "TypeError", x |-> <<>>]
         ELSE [outcome |-> "None", x |-> <<>>]
    ELSE [outcome |-> "returned", x |-> IF clip THEN ClipVec(x_k) ELSE x_k]

RECURSIVE AdmmLoop(_, _, _, _, _)
AdmmLoop(pre, lam, k, s, iters) ==
    IF iters = 0 \/ s.err # "none" THEN s
    ELSE AdmmLoop(pre, lam, k, AdmmStep(pre, lam, k, s), iters - 1)

\* lines 116-118: no iterate yet, alpha_0 and u_0 zero
TfStart(n, k) ==
    [err |-> "none", x_k |-> <<>>, alpha_0 |-> Zeros(n - k - 1),
     u_0 |-> Zeros(n - k - 1)]

\* the result of the call from the state s the loop ended in
TfResult(s, n_iters, clip) ==
    IF s.err # "none" THEN [outcome |-> s.err, x |-> <<>>]
    ELSE TfFinalize(s.x_k, n_iters > 0, clip)

\* the loop and the return, from the pre-calculations pre
TfRun(pre, n, lam, n_iters, k, clip) ==
    IF pre.err # "none" THEN [outcome |-> pre.err, x |-> <<>>]
    ELSE TfResult(AdmmLoop(pre, lam, k, TfStart(n, k), n_iters), n_iters, clip)

\* the whole call: [outcome, x], outcome "returned", "None" or the exception
deconvolve_tf(y, kernel, lam, n_iters, k, clip) ==
    TfRun(TfPrecompute(y, kernel, lam, k), Len(y), lam, n_iters, k, clip)

\* a faulty variant in which the call normalises y in place (y /= n)
tf_argument_scaled(y) == VScale(Div(R(1), R(Len(y))), y)

\* the array passed as y, as the call leaves it: lines 102-131 read y
\* (its shape, C.T @ y) and never assign into it
tf_argument_after(y) == y

----------------------------------------------------------------------------
(* deconvolution.py: _impute_with_neighbors *)

HasNaN(v) == \E i \in 1..Len(v) : IsNaN(v[i])

\* lines 239-243: the edge fills, written into the argument itself.
\* x[1] of a one-element vector is out of range: <<>> stands for IndexError.
ImputeEdges(x) ==
    LET n == Len(x)
    IN  IF n = 0 \/ (n = 1 /\ IsNaN(x[1])) THEN <<>>
        ELSE LET x1 == IF IsNaN(x[1]) THEN [x EXCEPT ![1] = x[2]] ELSE x
             IN  IF IsNaN(x1[n]) THEN [x1 EXCEPT ![n] = x1[n - 1]] ELSE x1

\* a faulty variant of the interior fill that copies the left neighbour
ImputeFillLeft(a, c) == a

\* line 248: the value written for a missing b between a and c
ImputeFill(a, c) == Div(Add(a, c), R(2))

\* lines 245-248: the copy and the interior fills, each read from x
ImputeInterior(x) ==
    Tab(LAMBDA i : IF 1 < i /\ i < Len(x) /\ IsNaN(x[i])
                   THEN ImputeFill(x[i - 1], x[i + 1]) ELSE x[i],
        Len(x))

\* a faulty variant without the final check
ImputeAssertOff(imputed_x) == TRUE

\* line 250
ImputeAssert(imputed_x) == ~HasNaN(imputed_x)

\* the whole call: the outcome, the argument as the call leaves it, and
\* the returned vector
impute_with_neighbors(x) ==
    LET xe == ImputeEdges(x)
    IN  IF xe = <<>>
        THEN [outcome |-> "IndexError", x |-> x, imputed_x |-> <<>>]
        ELSE LET imputed_x == ImputeInterior(xe)
             IN  IF ImputeAssert(imputed_x)
                 THEN [outcome |-> "returned", x |-> xe, imputed_x |-> imputed_x]
                 ELSE [outcome |-> "AssertionError", x |-> xe, imputed_x |-> <<>>]

----------------------------------------------------------------------------
(* deconvolution.py: deconvolve_tf_cv, the pieces of a fold *)

Sq(a) == Mul(a, a)

\* a faulty variant of the fold mask that strides by 2
TestSplitStride2(n, i) == Tab(LAMBDA p : p - 1 >= i /\ (p - 1 - i) % 2 = 0, n)

\* lines 193-194: test_idx[i::3] = True, for the 0-based fold i; entry p
\* of the mask is Python index p - 1
TestSplit(n, i) == Tab(LAMBDA p : p - 1 >= i /\ (p - 1 - i) % 3 = 0, n)

\* v[mask]: the entries of v where mask holds, in order
RECURSIVE Select(_, _)
Select(v, mask) ==
    IF Len(v) = 0 THEN <<>>
    ELSE LET rest == Select(Tail(v), Tail(mask))
         IN  IF Head(mask) THEN <<Head(v)>> \o rest ELSE rest

\* the number of entries of mask[1..p] that hold
RECURSIVE CountTo(_, _)
CountTo(mask, p) ==
    IF p = 0 THEN 0 ELSE CountTo(mask, p - 1) + (IF mask[p] THEN 1 ELSE 0)

Not(mask) == Tab(LAMBDA p : ~mask[p], Len(mask))

\* lines 200-201: a vector of NaN with x_hat[mask] = vals
Scatter(n, mask, vals) ==
    Tab(LAMBDA p : IF mask[p] THEN vals[CountTo(mask, p)] ELSE NaN, n)

\* line 205: np.sum((y[test_split] - y_hat[test_split]) ** 2)
Le3oLoss(y, y_hat, test_split) ==
    SumSeq(Tab(LAMBDA p : IF test_split[p] THEN Sq(Sub(y[p], y_hat[p])) ELSE Zero,
               Len(y)))

\* a faulty variant of the extrapolation that repeats the fitted value
\* before the last
ForwardXHatBeforeLast(fit) ==
    fit \o <<fit[IF Len(fit) >= 2 THEN Len(fit) - 1 ELSE 1]>>

\* lines 211-214: the fitted training window and the repeated value;
\* fit is the vector deconvolve_tf returned for y[:(n - i)]
ForwardXHat(fit) ==
    LET filled == fit \o <<NaN>>
    IN  [filled EXCEPT ![Len(filled)] = filled[Len(filled) - 1]]

\* line 216: (y[-1] - y_hat[-1]) ** 2
ForwardLoss(y, y_hat) == Sq(Sub(y[Len(y)], y_hat[Len(y_hat)]))

\* np.argmin: the index of the first minimum (1-based)
RECURSIVE ArgMinFrom(_, _, _)
ArgMinFrom(v, best, p) ==
    IF p > Len(v) THEN best
    ELSE ArgMinFrom(v, IF Less(v[p], v[best]) THEN p ELSE best, p + 1)

\* a faulty variant of argmin that returns the last minimum
RECURSIVE ArgMinLastFrom(_, _, _)
ArgMinLastFrom(v, best, p) ==
    IF p > Len(v) THEN best
    ELSE ArgMinLastFrom(v, IF Leq(v[p], v[best]) THEN p ELSE best, p + 1)

argmin_last(v) == ArgMinLastFrom(v, 1, 2)

argmin(v) == ArgMinFrom(v, 1, 2)

----------------------------------------------------------------------------
(* deconvolution.py: TempEpidata and the dates of deconvolve_signal.      *)
(* A date is written as the integer YYYYMMDD; a datetime.date is its      *)
(* proleptic Gregorian ordinal (date.toordinal()).                         *)

IsLeap(yr) == (yr % 4 = 0 /\ yr % 100 # 0) \/ yr % 400 = 0

DaysInMonth(yr, mo) ==
    IF mo = 2 THEN (IF IsLeap(yr) THEN 29 ELSE 28)
    ELSE IF mo \in {4, 6, 9, 11} THEN 30 ELSE 31

\* the days of year yr before month mo
RECURSIVE DaysBeforeMonth(_, _)
DaysBeforeMonth(yr, mo) ==
    IF mo <= 1 THEN 0 ELSE DaysBeforeMonth(yr, mo - 1) + DaysInMonth(yr, mo - 1)

\* the days before 1 January of year yr
DaysBeforeYear(yr) ==
    LET b == yr - 1
    IN  365 * b + (b \div 4) - (b \div 100) + (b \div 400)

\* strptime accepts the digits only when they name a calendar day
ValidDate(date) ==
    LET yr == date \div 10000
        mo == (date \div 100) % 100
        dy == date % 100
    IN  /\ 1 <= yr /\ yr <= 9999 /\ 1 <= mo /\ mo <= 12
        /\ 1 <= dy /\ dy <= DaysInMonth(yr, mo)

\* lines 257-259: datetime.strptime(str(date), '%Y%m%d').date()
to_date(date) ==
    LET yr == date \div 10000
        mo == (date \div 100) % 100
        dy == date % 100
    IN  DaysBeforeYear(yr) + DaysBeforeMonth(yr, mo) + dy

\* the year of the day with ordinal o, searched upwards from yr
RECURSIVE YearFrom(_, _)
YearFrom(o, yr) == IF o > DaysBeforeYear(yr + 1) THEN YearFrom(o, yr + 1) ELSE yr

\* the month of the d-th day of year yr, searched upwards from mo
RECURSIVE MonthFrom(_, _, _)
MonthFrom(yr, d, mo) ==
    IF d > DaysBeforeMonth(yr, mo + 1) THEN MonthFrom(yr, d, mo + 1) ELSE mo

\* line 317: int(d.strftime('%Y%m%d'))
strftime(o) ==
    LET yr == YearFrom(o, (o \div 366) + 1)
        d == o - DaysBeforeYear(yr)
        mo == MonthFrom(yr, d, 1)
    IN  yr * 10000 + mo * 100 + (d - DaysBeforeMonth(yr, mo))

\* lines 312-317: n_full_dates and full_dates from the first and the last
\* requested date; range() of a count below 1 is empty
FullDates(input_dates) ==
    LET start_date == to_date(input_dates[1])
        end_date == to_date(input_dates[Len(input_dates)])
        n_full_dates == (end_date - start_date) + 1
    IN  [n_full_dates |-> n_full_dates,
         full_dates |-> Tab(LAMBDA a : strftime(start_date + (a - 1)), n_full_dates)]

\* line 270: the None that get_signal_range returns in place of a series
None == [none |-> TRUE]

\* the container built at lines 273, 333 and 339: positional arguments
\* geo_value, geo_type, dates, values
LocationSeries(geo_value, geo_type, dates, values) ==
    [geo_value |-> geo_value, geo_type |-> geo_type, dates |-> dates,
     values |-> values]

\* line 272: one step of sorted(): pair goes behind every pair whose
\* time_value is not later (the sort is stable)
RECURSIVE InsertByTime(_, _)
InsertByTime(pairs, pair) ==
    IF pairs = <<>> THEN <<pair>>
    ELSE IF pair[1] < pairs[Len(pairs)][1]
         THEN Append(InsertByTime(SubSeq(pairs, 1, Len(pairs) - 1), pair),
                     pairs[Len(pairs)])
         ELSE Append(pairs, pair)

\* line 272: sorted(values, key=lambda ab: ab[0])
RECURSIVE SortByTime(_)
SortByTime(pairs) ==
    IF pairs = <<>> THEN <<>>
    ELSE InsertByTime(SortByTime(SubSeq(pairs, 1, Len(pairs) - 1)),
                      pairs[Len(pairs)])

\* lines 268-275: what get_signal_range makes of the API's response
get_signal_range(response, geo_type, geo_value) ==
    IF response.result # 1 THEN None
    ELSE LET rows == response.epidata
             values == SortByTime(Tab(LAMBDA a : <<rows[a].time_value, rows[a].value>>,
                                      Len(rows)))
         IN  LocationSeries(geo_value, geo_type,
                            Tab(LAMBDA a : values[a][1], Len(values)),
                            Tab(LAMBDA a : values[a][2], Len(values)))

\* line 340: np.full((n_full_dates,), np.nan), for a count that is not negative
NaNs(n) == Tab(LAMBDA a : NaN, n)

\* a faulty variant that puts the new series in front
list_prepend(lst, item) == <<item>> \o lst

\* lines 333 and 339: deconvolved_truth.append(...)
list_append(lst, item) == Append(lst, item)

\* lines 334-336: fit_func(convolved_truth.values, kernel) for the fitting
\* functions a caller passes: [outcome, x], as deconvolve_tf reports it
ApplyFit(fit_func, values, kernel) ==
    IF fit_func = "_fft_convolve"
    THEN [outcome |-> "returned", x |-> fft_convolve(values, kernel)]
    ELSE deconvolve_tf(values, kernel, R(1), 1, 1, TRUE)

----------------------------------------------------------------------------
(* sensor.py: get_sensors.  The defaultdict is the sequence of its        *)
(* <<key, list>> items, in order of insertion.                            *)

\* LocationSeries.empty: the series holds no dates and no values
empty(series) == series.dates = <<>> /\ series.values = <<>>

\* a faulty variant of the tests at lines 63 and 73 that keeps every series
ShouldAppendAlways(series) == TRUE

\* lines 63 and 73: if not ar_sensor.empty / if not reg_sensor.empty
ShouldAppend(series) == ~empty(series)

HasKey(dict, key) == \E a \in 1..Len(dict) : dict[a][1] = key

\* dict[key] for a key the dict holds
Lookup(dict, key) == dict[CHOOSE a \in 1..Len(dict) : dict[a][1] = key][2]

\* lines 64 and 74: output[key].append(item); the lookup of a key the
\* defaultdict(list) lacks inserts it with an empty list
DictAppend(dict, key, item) ==
    IF HasKey(dict, key)
    THEN Tab(LAMBDA a : IF dict[a][1] = key THEN <<key, Append(dict[a][2], item)>>
                        ELSE dict[a], Len(dict))
    ELSE Append(dict, <<key, <<item>>>>)

\* line 64: the key "ground_truth_ar"
ground_truth_ar == [name |-> "ground_truth_ar"]

\* SignalConfig(source, signal)
SignalConfig(source, signal) == [source |-> source, signal |-> signal]

----------------------------------------------------------------------------
(* sensor.py: get_regression_sensor_values *)

\* a faulty variant of the test at line 146 that ignores compute_missing
ReturnsHistoricalWhenComplete(compute_missing, missing_dates) ==
    missing_dates = <<>>

\* line 146: (not compute_missing) or (not missing_dates)
ReturnsHistorical(compute_missing, missing_dates) ==
    (~compute_missing) \/ missing_dates = <<>>

----------------------------------------------------------------------------
(* Bounds and input sets *)

\* series have 1..MaxLen entries
MaxLen == 3

\* series length plus ADMM iterations is at most MaxWork: the exact
\* arithmetic has to stay within TLC's 32-bit integers
MaxWork == 5

\* the penalty order k is 0..MaxK
MaxK == 1

\* observed values: none, or enough for the soft-threshold to act
SeriesValues == {R(0), R(8)}

RECURSIVE Series(_)
Series(n) == IF n = 0 THEN {<<>>}
             ELSE {Append(s, v) : s \in Series(n - 1), v \in SeriesValues}

\* delay kernels: the identity delay, a two-day smear, and a pure one-day
\* delay (zero leading weight)
Kernels == {<<R(1)>>, <<R(1), R(1)>>, <<R(0), R(1)>>}

\* penalty weights for a direct call of deconvolve_tf
Lams == {R(0), R(1)}

\* deconvolve_tf_cv: series of 2 to 4 points (a fold that holds out two
\* points needs 4; at 5 the exact inverse leaves TLC's 32-bit integers),
\* walk-forward folds 1..MaxFolds
CvLengths == 2..4

MaxFolds == 2

\* the validation-method names tried: the two the code knows and one it
\* does not
Methods == {"le3o", "forward", "loo"}

\* grids of positive weights, in both orders
Grids == {<<R(1), R(2)>>, <<R(2), R(1)>>}

\* the same call of deconvolve_tf_cv is made again after 0..MaxCalls
\* earlier calls
MaxCalls == 1

\* series values, kernels and iteration counts for deconvolve_tf_cv
CvSeriesValues == {R(0), R(1)}

CvKernels == {<<R(1)>>, <<R(1), R(1)>>}

CvIters == {1}

\* arguments of _soft_thresh: entries -MaxAbs..MaxAbs, thresholds
\* 0..MaxThresh
MaxAbs == 3

MaxThresh == 2

\* arguments of deconvolve_signal: at most MaxDates requested dates, around
\* the end of February of a leap year, one of them not a calendar day; at
\* most MaxLocs (location, geo_type) pairs
MaxDates == 2

MaxLocs == 2

DateValues == {20200228, 20200229, 20200230, 20200301}

LocationValues == {<<"pa", "state">>, <<"42003", "county">>}

\* the fitting functions passed as fit_func: _fft_convolve itself, and
\* lambda v, kern: deconvolve_tf(v, kern, 1, n_iters=1, k=1, clip=True)
FitFuncs == {"_fft_convolve", "deconvolve_tf"}

\* the value the API holds for a day
Observed(date) == R(date % 3)

\* arguments of get_sensors: the lists of sensors, and at most MaxLocs
\* ground truths, each the series of a location
SensorLists ==
    LET a == SignalConfig("src1", "sigA")
        b == SignalConfig("src2", "sigB")
    IN  {<<>>, <<a>>, <<a, b>>, <<b, a>>}

GroundTruth(loc) == LocationSeries(loc[1], loc[2], <<0, 1>>, <<R(2), R(3)>>)

\* lines 78-103, 106-194: what get_ar_sensor_values and
\* get_regression_sensor_values return for a ground truth: a series of its
\* location, without data or with one day's value
SensorResults(truth) ==
    {LocationSeries(truth.geo_value, truth.geo_type, <<>>, <<>>),
     LocationSeries(truth.geo_value, truth.geo_type, <<20200301>>, <<R(1)>>)}

RECURSIVE Vectors(_, _)
Vectors(S, n) == IF n = 0 THEN {<<>>}
                 ELSE {Append(s, v) : s \in Vectors(S, n - 1), v \in S}

\* lines 265-267: the responses of Epidata.covidcast for the days from
\* start_date to end_date: no results; a row per day, latest first; the
\* same with the second day missing
Responses(start_date, end_date) ==
    LET days == FullDates(<<start_date, end_date>>).full_dates
        row(date) == [time_value |-> date, value |-> Observed(date)]
        latest_first(ds) == Tab(LAMBDA a : row(ds[Len(ds) + 1 - a]), Len(ds))
    IN  {[result |-> -2, epidata |-> <<>>]}
        \cup (IF days = <<>> THEN {}
              ELSE {[result |-> 1, epidata |-> latest_first(days)],
                    [result |-> 1,
                     epidata |-> latest_first(SubSeq(days, 1, 1)
                                              \o SubSeq(days, 3, Len(days)))]})

\* entries of the signals and kernels convolved on their own
ConvValues == {R(-1), R(0), R(2)}

\* entries of a vector handed to _impute_with_neighbors
ImputeValues == {NaN, R(1), R(2), R(3), R(4)}

----------------------------------------------------------------------------
(* State *)

VARIABLES
    pc,         \* position of the running call
    outcome,    \* "running", "returned", "None", or the exception raised
    ret,        \* the returned vector
    y, kernel, lam, n_iters, k, clip,   \* arguments of deconvolve_tf(_cv)
    t,          \* iterations of the ADMM loop completed
    D, Cty, x_update_1,                 \* the pre-calculations
    x_k, alpha_0, u_0,                  \* the ADMM iterates
    x,          \* the vector handed to _soft_thresh / _impute_with_neighbors
    method, cv_grid, n_folds,           \* further arguments of deconvolve_tf_cv
    i, j,       \* the fold and the grid position (1-based) being fitted
    cv_loss,    \* the loss accumulated per grid value
    test_split, \* the held-out mask of the current "le3o" fold
    x_hat, y_hat,                       \* the fold's latent vector, re-convolved
    C,          \* the truncated convolution matrix (line 105), when inspected
    Dx_u0,      \* np.diff(x_k, n=(k + 1)) + u_0 (line 121), when inspected
    calls,      \* earlier calls of deconvolve_tf_cv that have ended
    first,      \* the outcome and the value of the first of them
    input_dates, input_locations, fit_func,   \* arguments of deconvolve_signal
    n_full_dates, full_dates,                 \* the span (lines 315-317)
    convolved_truth,    \* what get_signal_range returned for location j
    deconvolved_truth,  \* the list being built
    fetched,    \* what get_signal_range returned, per location so far
    fit_calls,  \* the calls of fit_func so far
    sensors, ground_truths,     \* arguments of get_sensors
    output,     \* the defaultdict being filled
    location_truth, sensor,     \* positions (1-based) of the two loops
    computed,   \* every series computed so far: [key, at, series]
    BASE_URL,   \* the global Epidata.BASE_URL
    query,      \* the historical query called: "_get_historical_data"
                \* (sensor.py) or "get_historical_sensor_data" (get_epidata.py)
    date_range, \* <<start_date, end_date>> of the call
    compute_missing, use_latest_issue,  \* flags of get_regression_sensor_values
    missing_dates,      \* the days without a historical value (line 251)
    day,        \* position (1-based) in missing_dates of the loop at line 168
    retrieved,  \* the historical series as _get_historical_data returned it
    indicator_results,  \* the result code of every Epidata.covidcast call
    computes    \* the calls of compute_regression_sensor so far

tfArgs == <<y, kernel, lam, n_iters, k, clip>>

tfState == <<t, D, Cty, x_update_1, x_k, alpha_0, u_0>>

cvState == <<method, cv_grid, n_folds, i, j, cv_loss, test_split, x_hat, y_hat>>

sigState == <<input_dates, input_locations, fit_func, n_full_dates, full_dates,
              convolved_truth, deconvolved_truth, fetched, fit_calls>>

sensorState == <<sensors, ground_truths, output, location_truth, sensor, computed>>

regState == <<BASE_URL, query, date_range, compute_missing, use_latest_issue,
              missing_dates, day, retrieved, indicator_results, computes>>

auxState == <<C, Dx_u0, calls, first, sigState, sensorState, regState>>

vars == <<pc, outcome, ret, tfArgs, tfState, x, cvState, auxState>>

\* nothing beyond the solver and the cross-validation in progress
SigIdle ==
    /\ input_dates = <<>> /\ input_locations = <<>> /\ fit_func = ""
    /\ n_full_dates = 0 /\ full_dates = <<>> /\ convolved_truth = None
    /\ deconvolved_truth = <<>> /\ fetched = <<>> /\ fit_calls = 0

SensorsIdle ==
    /\ sensors = <<>> /\ ground_truths = <<>> /\ output = <<>>
    /\ location_truth = 0 /\ sensor = 0 /\ computed = <<>>

\* no historical query and no get_regression_sensor_values in progress;
\* the global is at its production value
RegIdle ==
    /\ BASE_URL = "https://delphi.cmu.edu/epidata/api.php"
    /\ query = "" /\ date_range = <<>>
    /\ compute_missing = FALSE /\ use_latest_issue = FALSE
    /\ missing_dates = <<>> /\ day = 0 /\ retrieved = None
    /\ indicator_results = <<>> /\ computes = 0

AuxIdle ==
    /\ C = <<>> /\ Dx_u0 = <<>> /\ calls = 0 /\ first = <<>> /\ SigIdle
    /\ SensorsIdle /\ RegIdle

\* no call of deconvolve_tf_cv in progress
CvIdle ==
    /\ method = "" /\ cv_grid = <<>> /\ n_folds = 0 /\ i = 0 /\ j = 0
    /\ cv_loss = <<>> /\ test_split = <<>> /\ x_hat = <<>> /\ y_hat = <<>>

\* no call of deconvolve_tf in progress
TfIdle ==
    /\ y = <<>> /\ kernel = <<>> /\ n_iters = 0 /\ k = 0 /\ clip = FALSE
    /\ t = 0 /\ D = <<>> /\ Cty = <<>> /\ x_update_1 = <<>>
    /\ x_k = <<>> /\ alpha_0 = <<>> /\ u_0 = <<>>

----------------------------------------------------------------------------
(* deconvolve_tf, step by step *)

TfInit ==
    /\ pc = "tf_pre" /\ outcome = "running" /\ ret = <<>>
    /\ n_iters \in 0..(MaxWork - 1)
    /\ \E n \in 1..MaxLen : n + n_iters <= MaxWork /\ y \in Series(n)
    /\ kernel \in Kernels
    /\ lam \in Lams
    /\ k \in 0..MaxK
    /\ clip \in BOOLEAN
    /\ t = 0 /\ D = <<>> /\ Cty = <<>> /\ x_update_1 = <<>>
    /\ x_k = <<>> /\ alpha_0 = <<>> /\ u_0 = <<>>
    /\ x = <<>> /\ CvIdle /\ AuxIdle

\* lines 102-118
TfPre ==
    /\ pc = "tf_pre"
    /\ LET pre == TfPrecompute(y, kernel, lam, k)
       IN  IF pre.err # "none"
           THEN /\ pc' = "done" /\ outcome' = pre.err
                /\ UNCHANGED <<D, Cty, x_update_1, alpha_0, u_0>>
           ELSE /\ pc' = "tf_loop" /\ outcome' = outcome
                /\ D' = pre.D /\ Cty' = pre.Cty /\ x_update_1' = pre.x_update_1
                /\ alpha_0' = Zeros(Len(y) - k - 1)
                /\ u_0' = Zeros(Len(y) - k - 1)
    /\ UNCHANGED <<ret, tfArgs, t, x_k, x, cvState, auxState>>

\* lines 119-126: one pass of the loop body
TfIterate ==
    /\ pc = "tf_loop" /\ t < n_iters
    /\ LET s == AdmmStep([D |-> D, Cty |-> Cty, x_update_1 |-> x_update_1],
                         lam, k, [alpha_0 |-> alpha_0, u_0 |-> u_0])
       IN  /\ x_k' = s.x_k /\ alpha_0' = s.alpha_0 /\ u_0' = s.u_0
           /\ IF s.err # "none"
              THEN pc' = "done" /\ outcome' = s.err /\ t' = t
              ELSE pc' = pc /\ outcome' = outcome /\ t' = t + 1
    /\ UNCHANGED <<ret, tfArgs, D, Cty, x_update_1, x, cvState, auxState>>

\* lines 128-131: the loop is over; clip and return
TfReturn ==
    /\ pc = "tf_loop" /\ t = n_iters
    /\ LET r == TfFinalize(x_k, t > 0, clip)
       IN  pc' = "done" /\ outcome' = r.outcome /\ ret' = r.x
    /\ UNCHANGED <<tfArgs, tfState, x, cvState, auxState>>

TfNext == TfPre \/ TfIterate \/ TfReturn

SpecTf == TfInit /\ [][TfNext]_vars

----------------------------------------------------------------------------
(* deconvolve_tf with positive weights lam other than 1 *)

DualLams == {<<1, 2>>, R(1), R(2)}

DualInit ==
    /\ pc = "tf_pre" /\ outcome = "running" /\ ret = <<>>
    /\ n_iters \in 1..(MaxWork - 1)
    /\ \E n \in 1..MaxLen :
           n + n_iters <= MaxWork /\ y \in Vectors({R(0), R(3)}, n)
    /\ kernel \in CvKernels
    /\ lam \in DualLams
    /\ k \in 0..MaxK
    /\ clip = FALSE
    /\ t = 0 /\ D = <<>> /\ Cty = <<>> /\ x_update_1 = <<>>
    /\ x_k = <<>> /\ alpha_0 = <<>> /\ u_0 = <<>>
    /\ x = <<>> /\ CvIdle /\ AuxIdle

SpecDual == DualInit /\ [][TfNext]_vars

----------------------------------------------------------------------------
(* _soft_thresh applied to a vector, and applied again to its result *)

SoftInit ==
    /\ pc = "soft" /\ outcome = "running" /\ ret = <<>>
    /\ TfIdle /\ CvIdle /\ AuxIdle
    /\ \E n \in 1..MaxLen : x \in Vectors({R(v) : v \in -MaxAbs..MaxAbs}, n)
    /\ lam \in {R(v) : v \in 0..MaxThresh}

\* t counts the applications; the second is applied to the first's result
SoftThreshCall ==
    /\ pc = "soft" /\ t < 2
    /\ ret' = soft_thresh(IF t = 0 THEN x ELSE ret, lam)
    /\ t' = t + 1
    /\ UNCHANGED <<pc, outcome, tfArgs, D, Cty, x_update_1, x_k, alpha_0, u_0, x,
                   cvState, auxState>>

SoftNext == SoftThreshCall

SpecSoft == SoftInit /\ [][SoftNext]_vars

----------------------------------------------------------------------------
(* _impute_with_neighbors applied to a vector *)

ImputeInit ==
    /\ pc = "impute" /\ outcome = "running" /\ ret = <<>>
    /\ TfIdle /\ lam = Zero /\ CvIdle /\ AuxIdle
    /\ \E n \in 1..MaxLen : x \in Vectors(ImputeValues, n)

\* the call: the argument is left as the edge fills wrote it
ImputeCall ==
    /\ pc = "impute"
    /\ LET r == impute_with_neighbors(x)
       IN  pc' = "done" /\ outcome' = r.outcome /\ x' = r.x /\ ret' = r.imputed_x
    /\ UNCHANGED <<tfArgs, tfState, cvState, auxState>>

ImputeNext == ImputeCall

SpecImpute == ImputeInit /\ [][ImputeNext]_vars

----------------------------------------------------------------------------
(* deconvolve_tf_cv, fold by fold.  The grids hold positive weights and   *)
(* the solver runs at least one iteration, so no fit is None or NaN; the  *)
(* walk-forward folds leave at least one training point (n_folds < n).    *)

CvInit ==
    /\ pc = "cv_start" /\ outcome = "running" /\ ret = <<>>
    /\ \E n \in CvLengths : y \in Vectors(CvSeriesValues, n)
    /\ kernel \in CvKernels
    /\ method \in Methods
    /\ cv_grid \in Grids
    /\ n_folds \in IF method = "forward" THEN 1..MaxFolds ELSE {3}
    /\ n_folds < Len(y) \/ method # "forward"
    /\ n_iters \in CvIters
    /\ k \in 0..MaxK
    /\ clip \in BOOLEAN
    /\ lam = Zero
    /\ t = 0 /\ D = <<>> /\ Cty = <<>> /\ x_update_1 = <<>>
    /\ x_k = <<>> /\ alpha_0 = <<>> /\ u_0 = <<>>
    /\ x = <<>>
    /\ i = 0 /\ j = 0 /\ cv_loss = <<>> /\ test_split = <<>>
    /\ x_hat = <<>> /\ y_hat = <<>>
    /\ AuxIdle

\* lines 181-189, 207: the assert tests a two-element tuple, which is
\* always true, so every method name passes it; a name that is neither
\* "le3o" nor "forward" skips both branches
CvStart ==
    /\ pc = "cv_start"
    /\ cv_loss' = Zeros(Len(cv_grid))
    /\ IF method = "le3o"
       THEN pc' = "cv_le3o_fit" /\ i' = 0 /\ j' = 1
            /\ test_split' = TestSplit(Len(y), 0)
       ELSE IF method = "forward"
       THEN pc' = "cv_forward" /\ i' = 1 /\ j' = 1 /\ test_split' = test_split
       ELSE pc' = "cv_select" /\ i' = i /\ j' = j /\ test_split' = test_split
    /\ UNCHANGED <<outcome, ret, tfArgs, tfState, x, method, cv_grid, n_folds,
                   x_hat, y_hat, auxState>>

\* lines 200-201: place the fit among NaN; an exception in the fit ends
\* the call
Le3oPlace(fit) ==
    IF fit.outcome # "returned"
    THEN pc' = "done" /\ outcome' = fit.outcome /\ x_hat' = x_hat
    ELSE pc' = "cv_le3o_score" /\ outcome' = outcome
         /\ x_hat' = Scatter(Len(y), Not(test_split), fit.x)

\* lines 200-202: fit the points kept and place them among NaN.  The
\* boolean index y[~test_split] copies, so the fit is handed a new array.
CvLe3oFit ==
    /\ pc = "cv_le3o_fit"
    /\ Le3oPlace(deconvolve_tf(Select(y, Not(test_split)), kernel, cv_grid[j],
                               n_iters, k, clip))
    /\ UNCHANGED <<ret, tfArgs, tfState, x, method, cv_grid, n_folds, i, j,
                   cv_loss, test_split, y_hat, auxState>>

\* the loop headers of lines 197 and 199: the next grid value, else the
\* next fold, else the selection
CvLe3oAdvance ==
    IF j < Len(cv_grid)
    THEN pc' = "cv_le3o_fit" /\ j' = j + 1 /\ i' = i /\ test_split' = test_split
    ELSE IF i < 2
    THEN pc' = "cv_le3o_fit" /\ j' = 1 /\ i' = i + 1
         /\ test_split' = TestSplit(Len(y), i + 1)
    ELSE pc' = "cv_select" /\ j' = j /\ i' = i /\ test_split' = test_split

\* lines 203-205 from the imputer's result r
Le3oScore(r) ==
    IF r.outcome # "returned"
    THEN /\ pc' = "done" /\ outcome' = r.outcome
         /\ x_hat' = r.x
         /\ UNCHANGED <<i, j, cv_loss, test_split, y_hat>>
    ELSE /\ outcome' = outcome
         /\ x_hat' = r.imputed_x
         /\ y_hat' = fft_convolve(r.imputed_x, kernel)
         /\ cv_loss' = [cv_loss EXCEPT
                          ![j] = Add(@, Le3oLoss(y, y_hat', test_split))]
         /\ CvLe3oAdvance

\* lines 203-205: impute the held-out gaps, re-convolve, add the loss
CvLe3oScore ==
    /\ pc = "cv_le3o_score"
    /\ Le3oScore(impute_with_neighbors(x_hat))
    /\ UNCHANGED <<ret, tfArgs, tfState, x, method, cv_grid, n_folds, auxState>>

\* lines 211-216 from the fit of the training window, and the loop headers
\* of lines 208 and 210
ForwardScore(fit) ==
    IF fit.outcome # "returned"
    THEN /\ pc' = "done" /\ outcome' = fit.outcome
         /\ UNCHANGED <<i, j, cv_loss, x_hat, y_hat>>
    ELSE /\ outcome' = outcome
         /\ x_hat' = ForwardXHat(fit.x)
         /\ y_hat' = fft_convolve(x_hat', kernel)
         /\ cv_loss' = [cv_loss EXCEPT ![j] = Add(@, ForwardLoss(y, y_hat'))]
         /\ IF j < Len(cv_grid)
            THEN pc' = pc /\ j' = j + 1 /\ i' = i
            ELSE IF i < n_folds
            THEN pc' = pc /\ j' = 1 /\ i' = i + 1
            ELSE pc' = "cv_select" /\ j' = j /\ i' = i

\* lines 208-216: one walk-forward fit and its loss.  y[:(n - i)] is a
\* view of y, so the fit is handed the first n - i cells of y itself.
CvForwardFit ==
    /\ pc = "cv_forward"
    /\ ForwardScore(deconvolve_tf(SubSeq(y, 1, Len(y) - i), kernel, cv_grid[j],
                                  n_iters, k, clip))
    /\ y' = tf_argument_after(SubSeq(y, 1, Len(y) - i))
             \o SubSeq(y, Len(y) - i + 1, Len(y))
    /\ UNCHANGED <<ret, kernel, lam, n_iters, k, clip, tfState, x, method, cv_grid,
                   n_folds, test_split, auxState>>

\* lines 220-221: the final fit is what the call returns (or raises)
CvReturn(fit) ==
    pc' = "done" /\ outcome' = fit.outcome /\ ret' = fit.x /\ x_hat' = fit.x

\* lines 218-221: the grid value of least loss, and the final fit
CvSelect ==
    /\ pc = "cv_select"
    /\ lam' = cv_grid[argmin(cv_loss)]
    /\ CvReturn(deconvolve_tf(y, kernel, lam', n_iters, k, clip))
    /\ y' = tf_argument_after(y)
    /\ UNCHANGED <<kernel, n_iters, k, clip, tfState, x, method, cv_grid,
                   n_folds, i, j, cv_loss, test_split, y_hat, auxState>>

CvNext == CvStart \/ CvLe3oFit \/ CvLe3oScore \/ CvForwardFit \/ CvSelect

SpecCv == CvInit /\ [][CvNext]_vars

----------------------------------------------------------------------------
(* deconvolve_tf_cv called again with the same argument objects *)

\* the call has ended; the caller makes it again, passing y, kernel and
\* cv_grid as the earlier calls left them.  Every local of the new call is
\* fresh (lines 186-187).
CvCallAgain ==
    /\ pc = "done" /\ calls < MaxCalls
    /\ calls' = calls + 1
    /\ first' = IF calls = 0 THEN <<outcome, ret>> ELSE first
    /\ pc' = "cv_start" /\ outcome' = "running" /\ ret' = <<>>
    /\ lam' = Zero
    /\ i' = 0 /\ j' = 0 /\ cv_loss' = <<>> /\ test_split' = <<>>
    /\ x_hat' = <<>> /\ y_hat' = <<>>
    /\ UNCHANGED <<y, kernel, n_iters, k, clip, tfState, x, method, cv_grid,
                   n_folds, C, Dx_u0, sigState, sensorState, regState>>

CvRepeatNext == CvNext \/ CvCallAgain

\* the calls keep the default clip=True of line 141
CvRepeatInit == CvInit /\ clip

SpecCvRepeat == CvRepeatInit /\ [][CvRepeatNext]_vars

----------------------------------------------------------------------------
(* The penalty matrix of deconvolve_tf against np.diff, on a vector *)

DiffInit ==
    /\ pc = "diff" /\ outcome = "running" /\ ret = <<>>
    /\ y = <<>> /\ kernel = <<>> /\ lam = Zero /\ n_iters = 0 /\ clip = FALSE
    /\ k \in 0..MaxK
    /\ \E n \in 1..MaxLen : x_k \in Vectors({R(v) : v \in -MaxAbs..MaxAbs}, n)
    /\ t = 0 /\ D = <<>> /\ Cty = <<>> /\ x_update_1 = <<>>
    /\ alpha_0 = <<>> /\ u_0 = Zeros(Len(x_k) - k - 1)
    /\ x = <<>> /\ CvIdle /\ AuxIdle

\* lines 106-107 and 121: D for the length of x_k, D @ x_k, and the
\* difference the loop takes of x_k
DiffApply ==
    /\ pc = "diff"
    /\ D' = DiffMatrix(Len(x_k), k)
    /\ ret' = MatVec(D', x_k)
    /\ Dx_u0' = VAdd(Diff(x_k, k + 1), u_0)
    /\ pc' = "done" /\ outcome' = "returned"
    /\ UNCHANGED <<tfArgs, t, Cty, x_update_1, x_k, alpha_0, u_0, x, cvState, C, calls,
                   first, sigState, sensorState, regState>>

DiffNext == DiffApply

SpecDiff == DiffInit /\ [][DiffNext]_vars

----------------------------------------------------------------------------
(* The convolution matrix against _fft_convolve, on a signal and a kernel *)

ConvInit ==
    /\ pc = "conv" /\ outcome = "running" /\ ret = <<>>
    /\ TfIdle /\ lam = Zero /\ CvIdle /\ AuxIdle
    /\ \E n \in 1..MaxLen : x \in Vectors(ConvValues, n)

\* the kernel is an argument of the call
ConvCall ==
    /\ pc = "conv" /\ kernel = <<>>
    /\ \E m \in 1..MaxLen : kernel' \in Vectors(ConvValues, m)
    /\ pc' = "conv_apply"
    /\ UNCHANGED <<outcome, ret, y, lam, n_iters, k, clip, tfState, x, cvState,
                   auxState>>

\* lines 105 and 14-37: C = _construct_convolution_matrix(x, kernel)[:n, ]
\* and C @ x; lines 40-60: _fft_convolve(x, kernel)
ConvApply ==
    /\ pc = "conv_apply"
    /\ C' = SubSeq(construct_convolution_matrix(x, kernel), 1, Len(x))
    /\ ret' = MatVec(C', x)
    /\ y_hat' = fft_convolve(x, kernel)
    /\ pc' = "done" /\ outcome' = "returned"
    /\ UNCHANGED <<tfArgs, tfState, x, method, cv_grid, n_folds, i, j, cv_loss,
                   test_split, x_hat, Dx_u0, calls, first, sigState, sensorState, regState>>

ConvNext == ConvCall \/ ConvApply

SpecConv == ConvInit /\ [][ConvNext]_vars

----------------------------------------------------------------------------
(* deconvolve_signal, one location at a time *)

SigInit ==
    /\ pc = "sig_start" /\ outcome = "running" /\ ret = <<>>
    /\ \E n \in 0..MaxDates : input_dates \in Vectors(DateValues, n)
    /\ \E n \in 0..MaxLocs : input_locations \in Vectors(LocationValues, n)
    /\ kernel \in CvKernels
    /\ fit_func \in FitFuncs
    /\ y = <<>> /\ lam = Zero /\ n_iters = 0 /\ k = 0 /\ clip = FALSE
    /\ t = 0 /\ D = <<>> /\ Cty = <<>> /\ x_update_1 = <<>>
    /\ x_k = <<>> /\ alpha_0 = <<>> /\ u_0 = <<>>
    /\ x = <<>> /\ CvIdle
    /\ C = <<>> /\ Dx_u0 = <<>> /\ calls = 0 /\ first = <<>>
    /\ n_full_dates = 0 /\ full_dates = <<>> /\ convolved_truth = None
    /\ deconvolved_truth = <<>> /\ fetched = <<>> /\ fit_calls = 0
    /\ SensorsIdle /\ RegIdle

\* lines 310-320: the span from the first and the last requested date.
\* input_dates[0] of an empty list raises IndexError; strptime raises
\* ValueError for digits that name no day.
SigStart ==
    /\ pc = "sig_start"
    /\ IF input_dates = <<>>
       THEN /\ pc' = "done" /\ outcome' = "IndexError"
            /\ UNCHANGED <<n_full_dates, full_dates, j>>
       ELSE IF ~ValidDate(input_dates[1]) \/ ~ValidDate(input_dates[Len(input_dates)])
       THEN /\ pc' = "done" /\ outcome' = "ValueError"
            /\ UNCHANGED <<n_full_dates, full_dates, j>>
       ELSE /\ n_full_dates' = FullDates(input_dates).n_full_dates
            /\ full_dates' = FullDates(input_dates).full_dates
            /\ j' = 1
            /\ pc' = IF input_locations = <<>> THEN "sig_return" ELSE "sig_fetch"
            /\ UNCHANGED outcome
    /\ UNCHANGED <<ret, tfArgs, tfState, x, method, cv_grid, n_folds, i, cv_loss,
                   test_split, x_hat, y_hat, C, Dx_u0, calls, first, sensorState, regState, input_dates,
                   input_locations, fit_func, convolved_truth, deconvolved_truth,
                   fetched, fit_calls>>

\* lines 326-329: the fetch for location j, over the first and the last
\* requested date
SigFetch ==
    /\ pc = "sig_fetch"
    /\ \E response \in Responses(input_dates[1], input_dates[Len(input_dates)]) :
           convolved_truth' = get_signal_range(response, input_locations[j][2],
                                               input_locations[j][1])
    /\ fetched' = Append(fetched, convolved_truth')
    /\ pc' = "sig_append"
    /\ UNCHANGED <<outcome, ret, tfArgs, tfState, x, cvState, C, Dx_u0, calls, first, sensorState, regState,
                   input_dates, input_locations, fit_func, n_full_dates, full_dates,
                   deconvolved_truth, fit_calls>>

\* lines 333-337: the series of an available location, from the fit
SigFitted(fit) ==
    /\ fit_calls' = fit_calls + 1
    /\ IF fit.outcome # "returned"
       THEN /\ pc' = "done" /\ outcome' = fit.outcome
            /\ UNCHANGED <<deconvolved_truth, j>>
       ELSE /\ deconvolved_truth' =
                  list_append(deconvolved_truth,
                              LocationSeries(input_locations[j][1], input_locations[j][2],
                                             convolved_truth.dates, fit.x))
            /\ j' = j + 1
            /\ pc' = IF j = Len(input_locations) THEN "sig_return" ELSE "sig_fetch"
            /\ UNCHANGED outcome

\* lines 338-340: the series of an unavailable location; np.full raises
\* ValueError for a negative count
SigMissing ==
    /\ UNCHANGED fit_calls
    /\ IF n_full_dates < 0
       THEN /\ pc' = "done" /\ outcome' = "ValueError"
            /\ UNCHANGED <<deconvolved_truth, j>>
       ELSE /\ deconvolved_truth' =
                  list_append(deconvolved_truth,
                              LocationSeries(input_locations[j][1], input_locations[j][2],
                                             full_dates, NaNs(n_full_dates)))
            /\ j' = j + 1
            /\ pc' = IF j = Len(input_locations) THEN "sig_return" ELSE "sig_fetch"
            /\ UNCHANGED outcome

\* lines 332-342: the rest of the loop body for location j
SigAppend ==
    /\ pc = "sig_append"
    /\ IF convolved_truth # None
       THEN SigFitted(ApplyFit(fit_func, convolved_truth.values, kernel))
       ELSE SigMissing
    /\ UNCHANGED <<ret, tfArgs, tfState, x, method, cv_grid, n_folds, i, cv_loss,
                   test_split, x_hat, y_hat, C, Dx_u0, calls, first, sensorState, regState, input_dates,
                   input_locations, fit_func, n_full_dates, full_dates,
                   convolved_truth, fetched>>

\* line 348
SigReturn ==
    /\ pc = "sig_return"
    /\ ret' = deconvolved_truth
    /\ pc' = "done" /\ outcome' = "returned"
    /\ UNCHANGED <<tfArgs, tfState, x, cvState, auxState>>

SigNext == SigStart \/ SigFetch \/ SigAppend \/ SigReturn

SpecSignal == SigInit /\ [][SigNext]_vars

----------------------------------------------------------------------------
(* get_sensors, one computed series at a time *)

SensorsInit ==
    /\ outcome = "running" /\ ret = <<>>
    /\ TfIdle /\ lam = Zero /\ x = <<>> /\ CvIdle
    /\ C = <<>> /\ Dx_u0 = <<>> /\ calls = 0 /\ first = <<>> /\ SigIdle
    /\ RegIdle
    /\ sensors \in SensorLists
    /\ \E n \in 0..MaxLocs :
           \E locs \in Vectors(LocationValues, n) :
               ground_truths = Tab(LAMBDA a : GroundTruth(locs[a]), n)
    /\ output = <<>> /\ computed = <<>>
    /\ location_truth = 1 /\ sensor = 0
    /\ pc = IF ground_truths = <<>> THEN "sensors_return" ELSE "sensors_ar"

\* the loop headers at lines 61 and 65, after the series of the sensor at
\* position done (0: the AR sensor) of the current location
SensorsAdvance(done) ==
    IF done < Len(sensors)
    THEN /\ sensor' = done + 1 /\ pc' = "sensors_reg"
         /\ UNCHANGED location_truth
    ELSE /\ sensor' = 0 /\ location_truth' = location_truth + 1
         /\ pc' = IF location_truth = Len(ground_truths) THEN "sensors_return"
                  ELSE "sensors_ar"

\* lines 62-64
SensorsAr ==
    /\ pc = "sensors_ar"
    /\ \E ar_sensor \in SensorResults(ground_truths[location_truth]) :
        /\ output' = IF ShouldAppend(ar_sensor)
                     THEN DictAppend(output, ground_truth_ar, ar_sensor)
                     ELSE output
        /\ computed' = Append(computed, [key |-> ground_truth_ar,
                                         at |-> location_truth,
                                         series |-> ar_sensor])
    /\ SensorsAdvance(0)
    /\ UNCHANGED <<outcome, ret, tfArgs, tfState, x, cvState, C, Dx_u0, calls, first,
                   sigState, sensors, ground_truths, regState>>

\* lines 66-74; get_regression_sensor_values raises Exception for a bad
\* result of the API (lines 161, 181, 248), which ends the call
SensorsReg ==
    /\ pc = "sensors_reg"
    /\ \/ /\ \E reg_sensor \in SensorResults(ground_truths[location_truth]) :
              /\ output' = IF ShouldAppend(reg_sensor)
                           THEN DictAppend(output, sensors[sensor], reg_sensor)
                           ELSE output
              /\ computed' = Append(computed, [key |-> sensors[sensor],
                                               at |-> location_truth,
                                               series |-> reg_sensor])
          /\ SensorsAdvance(sensor)
          /\ UNCHANGED outcome
       \/ /\ pc' = "done" /\ outcome' = "Exception"
          /\ UNCHANGED <<output, computed, location_truth, sensor>>
    /\ UNCHANGED <<ret, tfArgs, tfState, x, cvState, C, Dx_u0, calls, first,
                   sigState, sensors, ground_truths, regState>>

\* line 75
SensorsReturn ==
    /\ pc = "sensors_return"
    /\ ret' = output
    /\ pc' = "done" /\ outcome' = "returned"
    /\ UNCHANGED <<tfArgs, tfState, x, cvState, auxState>>

SensorsNext == SensorsAr \/ SensorsReg \/ SensorsReturn

SpecSensors == SensorsInit /\ [][SensorsNext]_vars

----------------------------------------------------------------------------
(* The historical query (_get_historical_data of sensor.py, and            *)
(* get_historical_sensor_data of get_epidata.py, which sets and resets the *)
(* global in the same way), and get_regression_sensor_values around the    *)
(* former.  export_data is False.                                          *)

RegInit ==
    /\ pc = "hist_open" /\ outcome = "running" /\ ret = <<>>
    /\ TfIdle /\ lam = Zero /\ x = <<>> /\ CvIdle
    /\ C = <<>> /\ Dx_u0 = <<>> /\ calls = 0 /\ first = <<>> /\ SigIdle
    /\ SensorsIdle
    /\ BASE_URL = "https://delphi.cmu.edu/epidata/api.php"
    /\ query \in {"_get_historical_data", "get_historical_sensor_data"}
    /\ date_range \in {<<20200229, 20200229>>, <<20200229, 20200301>>}
    /\ compute_missing \in BOOLEAN /\ use_latest_issue \in BOOLEAN
    /\ query = "get_historical_sensor_data"
           => (compute_missing = FALSE /\ use_latest_issue = FALSE)
    /\ missing_dates = <<>> /\ day = 0 /\ retrieved = None
    /\ indicator_results = <<>> /\ computes = 0

\* sensor.py line 228, get_epidata.py line 95
HistOpen ==
    /\ pc = "hist_open"
    /\ BASE_URL' = "http://localhost:10080/epidata/api.php"
    /\ pc' = "hist_request"
    /\ UNCHANGED <<outcome, ret, tfArgs, tfState, x, cvState, C, Dx_u0, calls, first,
                   sigState, sensorState, query, date_range, compute_missing,
                   use_latest_issue, missing_dates, day, retrieved,
                   indicator_results, computes>>

\* sensor.py lines 229-252, get_epidata.py lines 96-119.  The request
\* either raises (the attribute lookups and Epidata.covidcast_nowcast run
\* between the two assignments of the global), or answers with a result
\* code: 1 with a row per day, each absent, NaN or a value; -2; any other.
HistRequest ==
    /\ pc = "hist_request"
    /\ \/ /\ pc' = "done" /\ outcome' = "Exception"
          /\ UNCHANGED <<BASE_URL, output, missing_dates, retrieved>>
       \/ /\ BASE_URL' = "https://delphi.cmu.edu/epidata/api.php"
          /\ pc' = "done" /\ outcome' = "Exception"
          /\ UNCHANGED <<output, missing_dates, retrieved>>
       \/ /\ BASE_URL' = "https://delphi.cmu.edu/epidata/api.php"
          /\ LET all_dates == FullDates(date_range).full_dates
             IN  \E rows \in Vectors({"absent", "nan", "value"}, Len(all_dates)) :
                   /\ output' =
                          LocationSeries("ca", "state",
                              Select(all_dates,
                                     Tab(LAMBDA a : rows[a] = "value", Len(rows))),
                              Select(Tab(LAMBDA a : R(1), Len(rows)),
                                     Tab(LAMBDA a : rows[a] = "value", Len(rows))))
                   /\ missing_dates' =
                          Select(all_dates,
                                 Tab(LAMBDA a : rows[a] # "value", Len(rows)))
          /\ retrieved' = output'
          /\ outcome' = IF query = "_get_historical_data" THEN "running"
                        ELSE "returned"
          /\ pc' = IF query = "_get_historical_data" THEN "reg_decide" ELSE "done"
    /\ UNCHANGED <<ret, tfArgs, tfState, x, cvState, C, Dx_u0, calls, first, sigState,
                   sensors, ground_truths, location_truth, sensor, computed, query,
                   date_range, compute_missing, use_latest_issue, day,
                   indicator_results, computes>>

\* lines 146-167: return the historical series, or fetch the indicator
\* once for all missing days (use_latest_issue)
RegDecide ==
    /\ pc = "reg_decide"
    /\ IF ReturnsHistorical(compute_missing, missing_dates)
       THEN /\ pc' = "reg_return" /\ UNCHANGED <<outcome, indicator_results, day>>
       ELSE IF ~use_latest_issue
       THEN /\ pc' = "reg_day" /\ day' = 1
            /\ UNCHANGED <<outcome, indicator_results>>
       ELSE \E result \in {1, -2, -1} :
              /\ indicator_results' = Append(indicator_results, result)
              /\ pc' = IF result = 1 THEN "reg_day"
                       ELSE IF result = -2 THEN "reg_return" ELSE "done"
              /\ outcome' = IF result \in {1, -2} THEN outcome ELSE "Exception"
              /\ day' = IF result = 1 THEN 1 ELSE day
    /\ UNCHANGED <<ret, tfArgs, tfState, x, cvState, C, Dx_u0, calls, first, sigState,
                   sensorState, BASE_URL, query, date_range, compute_missing,
                   use_latest_issue, missing_dates, retrieved, computes>>

\* lines 168-193: one missing day: the fetch as of the day (unless
\* use_latest_issue), the regression, and add_data for a value that is
\* not NaN
RegDay ==
    /\ pc = "reg_day"
    /\ \E result \in IF use_latest_issue THEN {0} ELSE {1, -2, -1} :
       \E sensor_value \in {NaN, R(2)} :
         /\ indicator_results' = IF use_latest_issue THEN indicator_results
                                 ELSE Append(indicator_results, result)
         /\ IF result = -1
            THEN /\ pc' = "done" /\ outcome' = "Exception"
                 /\ UNCHANGED <<output, computes, day>>
            ELSE /\ computes' = IF result = -2 THEN computes ELSE computes + 1
                 /\ output' = IF result = -2 \/ IsNaN(sensor_value) THEN output
                              ELSE [output EXCEPT
                                       !.dates = Append(@, missing_dates[day]),
                                       !.values = Append(@, sensor_value)]
                 /\ day' = day + 1
                 /\ pc' = IF day = Len(missing_dates) THEN "reg_return" ELSE "reg_day"
                 /\ UNCHANGED outcome
    /\ UNCHANGED <<ret, tfArgs, tfState, x, cvState, C, Dx_u0, calls, first, sigState,
                   sensors, ground_truths, location_truth, sensor, computed,
                   BASE_URL, query, date_range, compute_missing, use_latest_issue,
                   missing_dates, retrieved>>

\* lines 147, 159 and 194: return output
RegReturn ==
    /\ pc = "reg_return"
    /\ ret' = output
    /\ pc' = "done" /\ outcome' = "returned"
    /\ UNCHANGED <<tfArgs, tfState, x, cvState, auxState>>

RegNext == HistOpen \/ HistRequest \/ RegDecide \/ RegDay \/ RegReturn

SpecRegression == RegInit /\ [][RegNext]_vars

----------------------------------------------------------------------------
(* Claims about deconvolve_tf *)

IsError(o) == o \in {"LinAlgError", "ValueError", "ZeroDivisionError",
                     "TypeError", "AssertionError", "IndexError"}

IdentityKernel(ker) ==
    /\ Len(ker) >= 1 /\ ker[1] = R(1)
    /\ \A p \in 2..Len(ker) : ker[p] = Zero

\* C4: with the identity delay kernel and lam = 0, a call with at least one
\* iteration (on a series longer than k + 1) completes and returns the
\* observed series.
C4_IdentityRecovers ==
    (pc = "done" /\ IdentityKernel(kernel) /\ lam = Zero /\ n_iters >= 1
        /\ Len(y) > k + 1)
    => (outcome = "returned" /\ ret = y)

HasNegative(v) == \E p \in 1..Len(v) : Less(v[p], Zero)

C6_NegativeReturned ==
    pc = "done" /\ outcome = "returned" /\ ~clip /\ HasNegative(ret)

\* C9: a call whose series is not longer than k + 1 returns no solution
\* vector.
C9_ShortSeriesRejected ==
    (pc = "done" /\ Len(y) <= k + 1) => outcome # "returned"

----------------------------------------------------------------------------
(* Claims about _soft_thresh *)

\* C3 as stated: a second application with the same threshold changes
\* nothing.
C3_Idempotent == [][(pc = "soft" /\ t = 1) => ret' = ret]_vars

\* C3 amended: a second application leaves unchanged every entry whose
\* input lies within the threshold, and every entry when the threshold
\* is 0.
C3_IdempotentWithinThreshold ==
    [][(pc = "soft" /\ t = 1)
        => \A p \in 1..Len(x) :
              (lam = Zero \/ Leq(AbsR(x[p]), lam)) => ret'[p] = ret[p]]_vars

\* C3 witness: applied twice, with a nonzero entry within a positive
\* threshold and another entry beyond it
C3_Witness ==
    /\ pc = "soft" /\ t = 2 /\ Less(Zero, lam)
    /\ \E p \in 1..Len(x) : x[p] # Zero /\ Leq(AbsR(x[p]), lam)
    /\ \E p \in 1..Len(x) : Less(lam, AbsR(x[p]))

----------------------------------------------------------------------------
(* Claims about _impute_with_neighbors *)

\* no two consecutive entries of v are missing
Isolated(v) == \A p \in 1..(Len(v) - 1) : ~(IsNaN(v[p]) /\ IsNaN(v[p + 1]))

\* half the sum of a and c
Mean(a, c) == Norm(a[1] * c[2] + c[1] * a[2], 2 * a[2] * c[2])

\* C7: on a vector of length >= 2 with isolated missing entries the call
\* returns a vector without missing entries: a missing interior entry is
\* the mean of its two neighbours, a missing first or last entry a copy of
\* its neighbour, every other entry unchanged.
C7_IsolatedGapsFilled ==
    [][(pc = "impute" /\ Len(x) >= 2 /\ Isolated(x))
        => /\ outcome' = "returned"
           /\ Len(ret') = Len(x)
           /\ ~HasNaN(ret')
           /\ \A p \in 1..Len(x) :
                ret'[p] = IF ~IsNaN(x[p]) THEN x[p]
                          ELSE IF p = 1 THEN x[2]
                          ELSE IF p = Len(x) THEN x[Len(x) - 1]
                          ELSE Mean(x[p - 1], x[p + 1])]_vars

\* C7 witness: the call on [1, NaN, 3] returned [1, 2, 3] (the argument
\* keeps its interior gap)
C7_Witness ==
    /\ pc = "done" /\ outcome = "returned"
    /\ x = <<R(1), NaN, R(3)>> /\ ret = <<R(1), R(2), R(3)>>

\* C8: on a vector with two consecutive missing entries the call ends in
\* an error and returns nothing.
C8_ConsecutiveGapsRejected ==
    [][(pc = "impute" /\ Len(x) >= 2 /\ ~Isolated(x))
        => (IsError(outcome') /\ ret' = <<>>)]_vars

\* C8 witness: a call that ended in the assertion error, on an argument
\* that still shows two consecutive gaps
C8_Witness ==
    pc = "done" /\ outcome = "AssertionError" /\ ~Isolated(x) /\ ret = <<>>

----------------------------------------------------------------------------
(* Claims about deconvolve_tf_cv *)

\* C1: a call whose method is neither "le3o" nor "forward" stops at once
\* with a fatal error: no grid search, no deconvolution, no estimate.
C1_UnknownMethodRejected ==
    [][(pc = "cv_start" /\ method \notin {"le3o", "forward"})
        => (pc' = "done" /\ IsError(outcome') /\ ret' = <<>>)]_vars

\* C1, what the code does: a call with an unknown method returned an
\* estimate, every loss still zero
C1_UnknownMethodReturned ==
    /\ pc = "done" /\ method \notin {"le3o", "forward"}
    /\ outcome = "returned" /\ Len(ret) = Len(y)
    /\ cv_loss = Zeros(Len(cv_grid))

\* C2: walk-forward fold i adds to the loss the squared difference between
\* the re-convolved prediction at index n - i and the observation at index
\* n - i (0-based; entries n - i + 1 here).
C2_ForwardComparesNextValue ==
    [][(pc = "cv_forward" /\ outcome' = "running")
        => cv_loss'[j] = Add(cv_loss[j],
                             Sq(Sub(y[Len(y) - i + 1], y_hat'[Len(y) - i + 1])))]_vars

\* C2, what the code does: fold i compares the prediction at index n - i
\* with the last observation, index n - 1
C2_ForwardComparesLastValue ==
    [][(pc = "cv_forward" /\ outcome' = "running")
        => cv_loss'[j] = Add(cv_loss[j],
                             Sq(Sub(y[Len(y)], y_hat'[Len(y) - i + 1])))]_vars

\* C5: the call returns what deconvolve_tf returns on the whole series
\* with the grid value of least accumulated loss, the first such value
\* when several tie.
C5_ReturnsFitAtFirstArgmin ==
    [][pc = "cv_select"
        => \E js \in 1..Len(cv_grid) :
              /\ \A q \in 1..Len(cv_grid) : Leq(cv_loss[js], cv_loss[q])
              /\ \A q \in 1..(js - 1) : Less(cv_loss[js], cv_loss[q])
              /\ lam' = cv_grid[js]
              /\ LET fit == deconvolve_tf(y, kernel, cv_grid[js], n_iters, k, clip)
                 IN  outcome' = fit.outcome /\ ret' = fit.x]_vars

\* C5 witness: a walk-forward search returned the fit of the second grid
\* value, whose loss was strictly the least
C5_Witness ==
    /\ pc = "done" /\ outcome = "returned" /\ method = "forward"
    /\ Less(cv_loss[2], cv_loss[1]) /\ lam = cv_grid[2]
    /\ ret = deconvolve_tf(y, kernel, cv_grid[2], n_iters, k, clip).x

\* C5, ties: a search with known method returned the fit of the first of
\* two grid values of equal loss, which differs from the fit of the second
C5_TieWitness ==
    /\ pc = "done" /\ outcome = "returned" /\ method \in {"le3o", "forward"}
    /\ cv_loss[1] = cv_loss[2] /\ lam = cv_grid[1]
    /\ ret # deconvolve_tf(y, kernel, cv_grid[2], n_iters, k, clip).x

\* the 0-based indices fold f holds out of a series of n points
HeldOut(n, f) == {p \in 0..(n - 1) : TestSplit(n, f)[p + 1]}

\* C10: the three "le3o" held-out index sets are pairwise disjoint, cover
\* 0..n-1 and hold no two adjacent indices; the vector handed to the
\* imputer is missing exactly at the current fold's held-out positions.
C10_Le3oFolds ==
    (pc \in {"cv_le3o_fit", "cv_le3o_score"})
    => LET n == Len(y)
       IN  /\ \A f \in 0..2 : \A g \in 0..2 :
                f # g => HeldOut(n, f) \cap HeldOut(n, g) = {}
           /\ HeldOut(n, 0) \cup HeldOut(n, 1) \cup HeldOut(n, 2) = 0..(n - 1)
           /\ \A f \in 0..2 : \A p \in HeldOut(n, f) : p + 1 \notin HeldOut(n, f)
           /\ test_split = TestSplit(n, i)
           /\ pc = "cv_le3o_score"
                => /\ Len(x_hat) = n
                   /\ \A p \in 1..n : IsNaN(x_hat[p]) <=> (p - 1) \in HeldOut(n, i)

\* C10 witness: the first fold of a four-point series holds out indices 0
\* and 3, and the vector about to be imputed is missing exactly there
C10_Witness ==
    /\ pc = "cv_le3o_score" /\ i = 0 /\ Len(y) = 4
    /\ HeldOut(4, 0) = {0, 3}
    /\ IsNaN(x_hat[1]) /\ ~IsNaN(x_hat[2]) /\ ~IsNaN(x_hat[3]) /\ IsNaN(x_hat[4])

----------------------------------------------------------------------------
(* Claims about the ADMM loop of deconvolve_tf *)

\* C16: every iteration that completes updates in the order x, v, alpha,
\* u: x from the previous alpha and u (zero before the first iteration),
\* v the (k+1)-th difference of the new x plus the previous u, alpha the
\* soft-threshold of v, u = v - alpha.
C16_UpdateOrder ==
    [][(pc = "tf_loop" /\ t < n_iters)
        => /\ t = 0 => (alpha_0 = Zeros(Len(y) - k - 1) /\ u_0 = alpha_0)
           /\ x_k' = MatVec(x_update_1,
                            VAdd(Cty, VScale(lam, MatVec(Transpose(D, Len(y)),
                                                         VSub(alpha_0, u_0)))))
           /\ outcome' = "running"
                => /\ t' = t + 1
                   /\ alpha_0' = soft_thresh(VAdd(Diff(x_k', k + 1), u_0),
                                             Div(lam, lam))
                   /\ u_0' = VSub(VAdd(Diff(x_k', k + 1), u_0), alpha_0')]_vars

\* C16 witness: two iterations done, the second having read an alpha and a
\* u that the first left different from zero and from each other
C16_Witness ==
    /\ pc = "tf_loop" /\ t = 2
    /\ alpha_0 # Zeros(Len(alpha_0)) /\ u_0 # Zeros(Len(u_0)) /\ alpha_0 # u_0

\* C17: for every budget n_iters >= 0 and every input the call runs
\* exactly n_iters iterations and returns a vector of length n.
C17_RunsBudgetAndReturns ==
    pc = "done" => (outcome = "returned" /\ t = n_iters /\ Len(ret) = Len(y))

\* C17, what the code does with a budget of 0 and no clip: the loop body
\* never runs, x_k is still None, and None is returned
C17_NoneReturned ==
    pc = "done" /\ n_iters = 0 /\ ~clip /\ outcome = "None" /\ ret = <<>>

\* C17, the part that holds: a call that returns a vector has run exactly
\* n_iters >= 1 iterations
C17_ReturnAfterBudget ==
    (pc = "done" /\ outcome = "returned")
    => (n_iters >= 1 /\ t = n_iters /\ Len(ret) = Len(y))

----------------------------------------------------------------------------
(* Claims about the operators D and C *)

\* C14: for n > k + 1 the penalty matrix D is (n-k-1) x n, and D applied
\* to a vector of length n is the (k+1)-th forward difference that np.diff
\* takes of it.
C14_PenaltyIsDifference ==
    (pc = "done" /\ Len(x_k) > k + 1)
    => /\ Len(D) = Len(x_k) - k - 1
       /\ \A p \in 1..Len(D) : Len(D[p]) = Len(x_k)
       /\ ret = Dx_u0
       /\ Len(ret) = Len(x_k) - k - 1

\* C14 witness: D = [1, -2, 1] applied to a vector of three points whose
\* second difference is not zero
C14_Witness ==
    /\ pc = "done" /\ k = 1 /\ Len(x_k) = 3
    /\ D = <<<<R(1), R(-2), R(1)>>>>
    /\ ret = Dx_u0 /\ ret # <<Zero>>

\* sample p (1-based) of the full linear convolution of sig with ker
LinearConvolution(sig, ker, p) ==
    SumSeq(Tab(LAMBDA q : IF p - q < Len(ker) THEN Mul(ker[p - q + 1], sig[q])
                          ELSE Zero,
               p))

----------------------------------------------------------------------------
(* Claims about the walk-forward extrapolation *)

\* C19 as stated: the re-convolved latent vector of fold i is the n - i
\* fitted values followed by a repeat of the second-to-last fitted value
\* (index n - i - 2 of the training window).
C19_RepeatsSecondToLastFitted ==
    [][(pc = "cv_forward" /\ outcome' = "running" /\ Len(y) - i >= 2)
        => LET fit == deconvolve_tf(SubSeq(y, 1, Len(y) - i), kernel, cv_grid[j],
                                    n_iters, k, clip).x
           IN  x_hat' = fit \o <<fit[Len(y) - i - 1]>>]_vars

\* C19 amended: the re-convolved latent vector of fold i is the n - i
\* fitted values followed by a repeat of the last fitted value (index
\* n - i - 1 of the training window, the second-to-last entry of the
\* extended vector).
C19_RepeatsLastFitted ==
    [][(pc = "cv_forward" /\ outcome' = "running")
        => LET fit == deconvolve_tf(SubSeq(y, 1, Len(y) - i), kernel, cv_grid[j],
                                    n_iters, k, clip).x
           IN  /\ Len(fit) = Len(y) - i
               /\ x_hat' = fit \o <<fit[Len(y) - i]>>]_vars

\* C19 witness: a walk-forward fold whose extended vector ends in two
\* equal values that differ from the fitted value before them
C19_Witness ==
    /\ pc \in {"cv_forward", "cv_select"} /\ method = "forward"
    /\ Len(x_hat) >= 3
    /\ x_hat[Len(x_hat)] = x_hat[Len(x_hat) - 1]
    /\ x_hat[Len(x_hat) - 1] # x_hat[Len(x_hat) - 2]

----------------------------------------------------------------------------
(* Claims about side effects *)

----------------------------------------------------------------------------
(* Claims about deconvolve_signal *)

\* the span has been derived (lines 312-317 have run without raising)
SpanDerived == pc \in {"sig_fetch", "sig_append", "sig_return"}

ConsecutiveDays(dates) ==
    \A p \in 1..(Len(dates) - 1) : to_date(dates[p + 1]) = to_date(dates[p]) + 1

Contains(dates, date) == \E p \in 1..Len(dates) : dates[p] = date

AllNaN(values) == \A p \in 1..Len(values) : IsNaN(values[p])

\* C12: for every non-empty list of requested dates, the span derived is a
\* run of consecutive calendar days that contains every requested date.
C12_SpanCoversRequestedDates ==
    SpanDerived =>
        /\ ConsecutiveDays(full_dates)
        /\ \A p \in 1..Len(input_dates) : Contains(full_dates, input_dates[p])

\* C12: a span has been derived that misses a requested date
C12_RequestedDateOutsideSpan ==
    /\ SpanDerived
    /\ \E p \in 1..Len(input_dates) : ~Contains(full_dates, input_dates[p])

\* C12, for requests in ascending order: the span is a run of consecutive
\* days from the first to the last requested date, and holds all of them.
C12_SpanCoversAscendingDates ==
    (/\ SpanDerived
     /\ \A p \in 1..Len(input_dates) : ValidDate(input_dates[p])
     /\ \A p \in 1..(Len(input_dates) - 1) :
            to_date(input_dates[p]) <= to_date(input_dates[p + 1]))
    => /\ ConsecutiveDays(full_dates)
       /\ n_full_dates = Len(full_dates)
       /\ \A p \in 1..Len(input_dates) : Contains(full_dates, input_dates[p])

\* C11: when the fetch for a location reports no data, the loop appends for
\* that location a series whose dates are the span and whose values are all
\* missing and as many as the span's days, calls fit_func not at all, and
\* goes on to the next location (or to the return).
C11_MissingFetchDegrades ==
    [][(pc = "sig_append" /\ convolved_truth = None)
        => /\ outcome' = "running"
           /\ pc' = (IF j = Len(input_locations) THEN "sig_return" ELSE "sig_fetch")
           /\ fit_calls' = fit_calls
           /\ Len(deconvolved_truth') = Len(deconvolved_truth) + 1
           /\ LET made == deconvolved_truth'[Len(deconvolved_truth')]
              IN  /\ made.geo_value = input_locations[j][1]
                  /\ made.geo_type = input_locations[j][2]
                  /\ made.dates = full_dates
                  /\ Len(made.values) = Len(full_dates)
                  /\ AllNaN(made.values)]_vars

\* C11: the call has ended in the ValueError of np.full, raised while
\* handling a fetch that reported no data
C11_FallbackAborted ==
    /\ pc = "done" /\ outcome = "ValueError"
    /\ fetched # <<>> /\ fetched[Len(fetched)] = None

\* C11, for spans whose count of days is not negative: the fallback of the
\* claim is what the loop does.
C11_MissingFetchDegradesFromZeroDays ==
    [][(pc = "sig_append" /\ convolved_truth = None /\ n_full_dates >= 0)
        => /\ outcome' = "running"
           /\ pc' = (IF j = Len(input_locations) THEN "sig_return" ELSE "sig_fetch")
           /\ fit_calls' = fit_calls
           /\ deconvolved_truth' =
                  Append(deconvolved_truth,
                         [geo_value |-> input_locations[j][1],
                          geo_type |-> input_locations[j][2],
                          dates |-> full_dates,
                          values |-> [p \in 1..n_full_dates |-> NaN]])]_vars

\* C13: a call that returns, returns one series per input location, in the
\* order of the input: the p-th series carries the p-th location's geo_value
\* and geo_type, and for an available location its dates are the fetched
\* dates and its values are fit_func of the fetched values and the kernel.
C13_OneSeriesPerLocationInOrder ==
    (pc = "done" /\ outcome = "returned")
    => /\ Len(ret) = Len(input_locations)
       /\ Len(fetched) = Len(input_locations)
       /\ \A p \in 1..Len(ret) :
            /\ ret[p].geo_value = input_locations[p][1]
            /\ ret[p].geo_type = input_locations[p][2]
            /\ fetched[p] # None
                => /\ ret[p].dates = fetched[p].dates
                   /\ ret[p].values = ApplyFit(fit_func, fetched[p].values, kernel).x

\* C13: a call over two different locations has returned, the first of
\* them available and the second not
C13_Witness ==
    /\ pc = "done" /\ outcome = "returned"
    /\ Len(input_locations) = 2 /\ input_locations[1] # input_locations[2]
    /\ Len(ret) = 2
    /\ fetched[1] # None /\ fetched[2] = None
    /\ Len(ret[1].values) >= 2

----------------------------------------------------------------------------
(* Claims about get_sensors *)

\* the keys get_sensors can file a series under
SensorKeys == {ground_truth_ar} \cup {sensors[p] : p \in 1..Len(sensors)}

\* the series computed under key f, in the order computed
ComputedFor(f) == SelectSeq(computed, LAMBDA e : e.key = f)

\* those of them that hold data
NonEmptyFor(f) == SelectSeq(computed, LAMBDA e : e.key = f /\ ~empty(e.series))

\* C20: the mapping get_sensors returns lists, under "ground_truth_ar" and
\* under each sensor, exactly the non-empty series computed for the ground
\* truths, in the order of the locations; no list holds an empty series, and
\* a key whose series are all empty is not in the mapping.
C20_NonEmptySeriesPerKeyInOrder ==
    (pc = "done" /\ outcome = "returned")
    => /\ \A p \in 1..Len(ret) :
            /\ ret[p][1] \in SensorKeys
            /\ \A q \in 1..Len(ret) : ret[q][1] = ret[p][1] => q = p
            /\ \A q \in 1..Len(ret[p][2]) : ~empty(ret[p][2][q])
       /\ \A f \in SensorKeys :
            /\ Len(ComputedFor(f)) = Len(ground_truths)
            /\ \A q \in 1..Len(ComputedFor(f)) :
                   /\ ComputedFor(f)[q].at = q
                   /\ ComputedFor(f)[q].series.geo_value = ground_truths[q].geo_value
            /\ IF NonEmptyFor(f) = <<>> THEN ~HasKey(ret, f)
               ELSE /\ HasKey(ret, f)
                    /\ Lookup(ret, f) = [q \in 1..Len(NonEmptyFor(f)) |->
                                            NonEmptyFor(f)[q].series]

\* C20: a call over two different locations and two sensors has returned;
\* the AR series of the second location was empty, every series of the
\* first sensor was empty, and both series of the second sensor held data
C20_Witness ==
    /\ pc = "done" /\ outcome = "returned"
    /\ Len(ground_truths) = 2 /\ Len(sensors) = 2
    /\ ground_truths[1].geo_value # ground_truths[2].geo_value
    /\ Len(computed) = 6
    /\ ~empty(computed[1].series) /\ empty(computed[4].series)
    /\ NonEmptyFor(sensors[1]) = <<>>
    /\ Len(NonEmptyFor(sensors[2])) = 2
    /\ Len(ret) = 2

----------------------------------------------------------------------------
(* Claims about the argument of _impute_with_neighbors *)

\* C24: the call leaves the vector passed to it unchanged, whatever the
\* input, a missing first or last entry included; the filled values are in
\* the returned vector only.
C24_ArgumentUnchanged ==
    [][pc = "impute" => x' = x]_vars

\* C24, for a vector whose first and last entries are present: the call
\* leaves its argument unchanged, interior gaps included.
C24_ArgumentUnchangedWithEdgesPresent ==
    [][(pc = "impute" /\ ~IsNaN(x[1]) /\ ~IsNaN(x[Len(x)])) => x' = x]_vars

\* C24, what the code does to a missing edge: the argument's first entry
\* becomes its second, its last entry its second-to-last (lines 239-243).
C24_EdgesWrittenIntoArgument ==
    [][(pc = "impute" /\ Len(x) >= 2)
        => /\ Len(x') = Len(x)
           /\ \A p \in 2..(Len(x) - 1) : x'[p] = x[p]
           /\ x'[1] = (IF IsNaN(x[1]) THEN x[2] ELSE x[1])
           /\ (Len(x) > 2 \/ ~IsNaN(x[1]))
                => x'[Len(x)] = (IF IsNaN(x[Len(x)]) THEN x[Len(x) - 1]
                                 ELSE x[Len(x)])]_vars

----------------------------------------------------------------------------
(* Claims about the dual variable of deconvolve_tf *)

\* C22: for lam > 0 the threshold lam / rho is 1 whatever lam is, and after
\* every iteration, with v the (k+1)-th difference of the new x plus the
\* previous u: each component of u lies in [-1, 1]; where alpha is not zero,
\* |u| = 1 with the sign of alpha; where |v| <= 1, alpha = 0 and u = v.
C22_DualWithinUnitBox ==
    [][(pc = "tf_loop" /\ t < n_iters /\ Less(Zero, lam))
        => /\ outcome' = "running"
           /\ Div(lam, lam) = R(1)
           /\ LET v == VAdd(Diff(x_k', k + 1), u_0)
              IN  /\ Len(u_0') = Len(v) /\ Len(alpha_0') = Len(v)
                  /\ \A p \in 1..Len(v) :
                       /\ Leq(R(-1), u_0'[p]) /\ Leq(u_0'[p], R(1))
                       /\ alpha_0'[p] # Zero
                            => /\ AbsR(u_0'[p]) = R(1)
                               /\ Sign(u_0'[p]) = Sign(alpha_0'[p])
                       /\ Leq(AbsR(v[p]), R(1))
                            => (alpha_0'[p] = Zero /\ u_0'[p] = v[p])]_vars

\* C22 witness: after an iteration with lam other than 1, one component of
\* the dual is at the bound with alpha not zero, another strictly inside
\* the box, not zero, with alpha zero
C22_Witness ==
    /\ pc = "tf_loop" /\ t >= 1 /\ lam # R(1)
    /\ \E p \in 1..Len(u_0) : alpha_0[p] # Zero /\ AbsR(u_0[p]) = R(1)
    /\ \E p \in 1..Len(u_0) :
           alpha_0[p] = Zero /\ u_0[p] # Zero /\ Less(AbsR(u_0[p]), R(1))

----------------------------------------------------------------------------
(* Claims about the historical query and get_regression_sensor_values *)

ProductionUrl == "https://delphi.cmu.edu/epidata/api.php"

LocalhostUrl == "http://localhost:10080/epidata/api.php"

\* C23: Epidata.BASE_URL holds the production URL whenever no historical
\* query is executing: after every call, whether it returned or ended with
\* an exception of the request or of a bad result code, the global is back
\* at the production URL.
C23_BaseUrlProductionWhenIdle ==
    pc # "hist_request" => BASE_URL = ProductionUrl

\* C23, what the code does when the request raises: the call has ended and
\* the global is still at the localhost URL
C23_LeftAtLocalhost ==
    pc = "done" /\ outcome = "Exception" /\ BASE_URL = LocalhostUrl

\* C23, the part that holds: once the request has answered, with whatever
\* result code, the global is at the production URL.
C23_RestoredAfterResponse ==
    /\ BASE_URL \in {ProductionUrl, LocalhostUrl}
    /\ (pc \in {"hist_open", "reg_decide", "reg_day", "reg_return"}
           \/ (pc = "done" /\ outcome = "returned"))
        => BASE_URL = ProductionUrl
    /\ [][(pc = "hist_request" /\ BASE_URL' = LocalhostUrl)
            => (pc' = "done" /\ outcome' = "Exception")]_vars

\* C21: get_regression_sensor_values returns the historical series as
\* retrieved, with no indicator fetch and no sensor value computed or
\* added, when no requested date is missing or compute_missing is false;
\* and the same unchanged series, nothing computed, when dates are missing
\* but every indicator fetch reports no results.
C21_HistoricalReturnedUnchanged ==
    (pc = "done" /\ outcome = "returned" /\ query = "_get_historical_data")
    => /\ (missing_dates = <<>> \/ ~compute_missing)
            => (ret = retrieved /\ indicator_results = <<>> /\ computes = 0)
       /\ (\A p \in 1..Len(indicator_results) : indicator_results[p] = -2)
            => (ret = retrieved /\ computes = 0)

\* C21 witness: a call with compute_missing, one of two days retrieved and
\* the other missing, whose indicator fetch reported no results, returned
\* the retrieved series
C21_Witness ==
    /\ pc = "done" /\ outcome = "returned" /\ query = "_get_historical_data"
    /\ compute_missing /\ Len(missing_dates) = 1 /\ Len(retrieved.dates) = 1
    /\ indicator_results = <<-2>>
    /\ ret = retrieved

============================================================================
